---- MODULE Spec2Model ----
(***************************************************************************)
(* Model of the request-parameter layer of elastic_reqwest (src/src/lib.rs):*)
(* RequestParams and its builder calls, get_url_qry, build_url and          *)
(* build_method.  Strings are sequences of one-character strings, so that   *)
(* lengths, concatenation, byte order and percent-encoding are computed.    *)
(***************************************************************************)
EXTENDS Integers, Sequences, FiniteSets, TLC

(***************************************************************************)
(* Strings and bytes                                                       *)
(***************************************************************************)

\* The printable ASCII characters in code order, starting at code 32 (the two
\* quotes, the backslash and the backtick are written as names).
Ascii ==
  <<" ","!","DQUOTE","#","$","%","&","QUOTE","(",")","*","+",",","-",".","/",
    "0","1","2","3","4","5","6","7","8","9",":",";","<","=",">","?",
    "@","A","B","C","D","E","F","G","H","I","J","K","L","M","N","O",
    "P","Q","R","S","T","U","V","W","X","Y","Z","[","BACKSLASH","]","^","_",
    "BACKTICK","a","b","c","d","e","f","g","h","i","j","k","l","m","n","o",
    "p","q","r","s","t","u","v","w","x","y","z","{","|","}","~">>

Chars == {Ascii[i] : i \in 1..Len(Ascii)}

\* The byte value of a character.
ByteOf == [c \in Chars |-> 31 + (CHOOSE i \in 1..Len(Ascii) : Ascii[i] = c)]

HexDigits == <<"0","1","2","3","4","5","6","7","8","9","A","B","C","D","E","F">>

Digits == {"0","1","2","3","4","5","6","7","8","9"}
Uppers == {"A","B","C","D","E","F","G","H","I","J","K","L","M","N","O","P","Q","R","S","T","U","V","W","X","Y","Z"}
Lowers == {"a","b","c","d","e","f","g","h","i","j","k","l","m","n","o","p","q","r","s","t","u","v","w","x","y","z"}

\* Ord for str: byte-wise lexicographic order (the order of BTreeMap<&str, _>).
RECURSIVE StrLess(_, _)
StrLess(a, b) ==
  IF b = <<>> THEN FALSE
  ELSE IF a = <<>> THEN TRUE
  ELSE IF ByteOf[Head(a)] # ByteOf[Head(b)] THEN ByteOf[Head(a)] < ByteOf[Head(b)]
  ELSE StrLess(Tail(a), Tail(b))

(***************************************************************************)
(* Values given to url_param and their ToString conversion                 *)
(***************************************************************************)

BoolValue(b) == [ty |-> "bool", b |-> b, s |-> <<>>]
StrValue(s) == [ty |-> "str", b |-> FALSE, s |-> s]

\* value.to_string(): Display of bool prints true / false, of &str the text.
to_string(v) ==
  IF v.ty = "bool"
  THEN (IF v.b THEN <<"t","r","u","e">> ELSE <<"f","a","l","s","e">>)
  ELSE v.s

(***************************************************************************)
(* url::form_urlencoded::Serializer, as get_url_qry uses it                *)
(***************************************************************************)

\* Variant: an encoder that escapes the asterisk too.
byte_serialized_unchanged_no_star(c) ==
  c \in Digits \cup Uppers \cup Lowers \cup {"-", ".", "_"}

\* Bytes the application/x-www-form-urlencoded serializer leaves unchanged.
byte_serialized_unchanged(c) ==
  c \in Digits \cup Uppers \cup Lowers \cup {"*", "-", ".", "_"}

percent_encode_byte(c) ==
  <<"%", HexDigits[(ByteOf[c] \div 16) + 1], HexDigits[(ByteOf[c] % 16) + 1]>>

RECURSIVE byte_serialize(_)
byte_serialize(s) ==
  IF s = <<>> THEN <<>>
  ELSE (IF byte_serialized_unchanged(Head(s)) THEN <<Head(s)>>
        ELSE IF Head(s) = " " THEN <<"+">>
        ELSE percent_encode_byte(Head(s)))
       \o byte_serialize(Tail(s))

\* The second argument of Serializer::for_suffix in get_url_qry.
StartPosition == 1

\* Serializer::for_suffix(target, start_position)
for_suffix(target, start_position) ==
  [target |-> target, start_position |-> start_position]

\* Variant: the separator is written before every pair, the first included.
append_pair_always_separator(ser, name, value) ==
  [ser EXCEPT !.target =
     ser.target \o <<"&">> \o byte_serialize(name) \o <<"=">> \o byte_serialize(value)]

\* Serializer::append_pair: an ampersand unless the target is still at start_position.
append_pair(ser, name, value) ==
  [ser EXCEPT !.target =
     (IF Len(ser.target) > ser.start_position THEN ser.target \o <<"&">> ELSE ser.target)
     \o byte_serialize(name) \o <<"=">> \o byte_serialize(value)]

\* Serializer::extend_pairs over the iterator of the map (ascending key order).
RECURSIVE extend_pairs(_, _)
extend_pairs(ser, entries) ==
  IF entries = <<>> THEN ser
  ELSE extend_pairs(append_pair(ser, Head(entries).key, Head(entries).val), Tail(entries))

finish(ser) == ser.target

(***************************************************************************)
(* BTreeMap<&static str, String>: entries kept in ascending key order      *)
(***************************************************************************)

EmptyMap == <<>>

contains_key(m, k) == \E i \in 1..Len(m) : m[i].key = k

\* *map.get_mut(key).unwrap() = value
assign_entry(m, k, v) ==
  [i \in 1..Len(m) |-> IF m[i].key = k THEN [key |-> k, val |-> v] ELSE m[i]]

\* The number of entries whose key sorts before k.
Rank(m, k) == Cardinality({i \in 1..Len(m) : StrLess(m[i].key, k)})

\* Variant: a map that keeps insertion order, a new key going last.
insert_append(m, k, v) ==
  IF contains_key(m, k) THEN assign_entry(m, k, v)
  ELSE m \o <<[key |-> k, val |-> v]>>

\* BTreeMap::insert of a key: replaces an entry, or places it in key order.
insert(m, k, v) ==
  IF contains_key(m, k) THEN assign_entry(m, k, v)
  ELSE SubSeq(m, 1, Rank(m, k)) \o <<[key |-> k, val |-> v]>>
       \o SubSeq(m, Rank(m, k) + 1, Len(m))

(***************************************************************************)
(* reqwest::header::Headers: one value per header name                     *)
(***************************************************************************)

ContentTypeName == "Content-Type"
AuthorizationName == "Authorization"

ContentTypeJson == [name |-> ContentTypeName, value |-> "application/json"]
ContentTypePlaintext == [name |-> ContentTypeName, value |-> "text/plain"]
AuthorizationLetMeIn == [name |-> AuthorizationName, value |-> "let me in"]

HeadersNew == [n \in {} |-> ""]

\* Headers::set: replaces the value stored under the name of the header.
HeadersSet(hs, h) ==
  [n \in DOMAIN hs \cup {h.name} |-> IF n = h.name THEN h.value ELSE hs[n]]

(***************************************************************************)
(* RequestParams                                                           *)
(***************************************************************************)

DefaultBaseUrl ==
  <<"h","t","t","p",":","/","/","l","o","c","a","l","h","o","s","t",":","9","2","0","0">>

\* Variant: a constructor that resets the whole value is used as the setter.
base_url_reset(self, base) ==
  [base_url |-> base,
   headers |-> HeadersSet(HeadersNew, ContentTypeJson),
   url_params |-> EmptyMap]

\* Variant: a key that is already present keeps its first value.
url_param_keep_first(self, key, value) ==
  IF contains_key(self.url_params, key)
  THEN self
  ELSE [self EXCEPT !.url_params = insert(self.url_params, key, to_string(value))]

\* Variant: the header set is replaced by the one header given.
header_replacing_all(self, h) == [self EXCEPT !.headers = HeadersSet(HeadersNew, h)]

\* RequestParams::new
new(base) ==
  [base_url |-> base,
   headers |-> HeadersSet(HeadersNew, ContentTypeJson),
   url_params |-> EmptyMap]

\* impl Default for RequestParams
default == new(DefaultBaseUrl)

\* RequestParams::base_url
base_url(self, base) == [self EXCEPT !.base_url = base]

\* RequestParams::url_param
url_param(self, key, value) ==
  IF contains_key(self.url_params, key)
  THEN [self EXCEPT !.url_params = assign_entry(self.url_params, key, to_string(value))]
  ELSE [self EXCEPT !.url_params = insert(self.url_params, key, to_string(value))]

\* RequestParams::header
header(self, h) == [self EXCEPT !.headers = HeadersSet(self.headers, h)]

\* Option<String>
None == [some |-> FALSE, str |-> <<>>]
Some(s) == [some |-> TRUE, str |-> s]

\* Variant: the emptiness test is left out.
get_url_qry_always_some(self) ==
  LET qry == finish(extend_pairs(for_suffix(<<"?">>, StartPosition), self.url_params))
  IN  [len |-> Len(qry), opt |-> [some |-> TRUE, str |-> qry]]

\* RequestParams::get_url_qry
get_url_qry(self) ==
  IF Len(self.url_params) > 0
  THEN LET qry == finish(extend_pairs(for_suffix(<<"?">>, StartPosition), self.url_params))
       IN  [len |-> Len(qry), opt |-> Some(qry)]
  ELSE [len |-> 0, opt |-> None]

\* Variant: the query string is not appended.
build_url_no_query(req_url, params) == params.base_url \o req_url

\* build_url
build_url(req_url, params) ==
  LET r == get_url_qry(params)
      url == params.base_url \o req_url
  IN  IF r.opt.some THEN url \o r.opt.str ELSE url

\* elastic_requests::HttpMethod
HttpMethod ==
  {[enum |-> "HttpMethod", variant |-> v] :
     v \in {"Get", "Post", "Head", "Delete", "Put", "Patch"}}

\* reqwest::Method
TransportMethod ==
  {[enum |-> "reqwest::Method", variant |-> v] :
     v \in {"Options", "Get", "Post", "Put", "Delete", "Head", "Trace", "Connect",
            "Patch", "Extension"}}

Http(v) == [enum |-> "HttpMethod", variant |-> v]
Transport(v) == [enum |-> "reqwest::Method", variant |-> v]

\* Variant: two arms of the match give the same verb.
build_method_patch_as_put(method) ==
  CASE method = Http("Get") -> Transport("Get")
    [] method = Http("Post") -> Transport("Post")
    [] method = Http("Head") -> Transport("Head")
    [] method = Http("Delete") -> Transport("Delete")
    [] method = Http("Put") -> Transport("Put")
    [] method = Http("Patch") -> Transport("Put")

\* build_method: an exhaustive match over the six variants of HttpMethod.
build_method(method) ==
  CASE method = Http("Get") -> Transport("Get")
    [] method = Http("Post") -> Transport("Post")
    [] method = Http("Head") -> Transport("Head")
    [] method = Http("Delete") -> Transport("Delete")
    [] method = Http("Put") -> Transport("Put")
    [] method = Http("Patch") -> Transport("Patch")

(***************************************************************************)
(* Inputs                                                                  *)
(***************************************************************************)

EsHost == <<"h","t","t","p",":","/","/","e","s","h","o","s","t",":","9","2","0","0">>
Es2 == <<"h","t","t","p",":","/","/","e","s","2",":","9","2","0","0","/">>

KeyPretty == <<"p","r","e","t","t","y">>
KeyQ == <<"q">>
KeyPreference == <<"p","r","e","f","e","r","e","n","c","e">>

ValTrue == BoolValue(TRUE)
ValFalse == BoolValue(FALSE)
ValStar == StrValue(<<"*">>)
ValPhrase == StrValue(<<"a"," ","b","&","c">>)
ValLocal == StrValue(<<"_","l","o","c","a","l">>)

SearchPath ==
  <<"/","m","y","i","n","d","e","x","/","m","y","t","y","p","e","/","_","s","e","a","r","c","h">>
RootPath == <<"/">>

BaseUrls == {DefaultBaseUrl, EsHost, Es2}
Keys == {KeyPretty, KeyQ, KeyPreference}
\* The (key, value) arguments of url_param.
UrlParamInputs ==
  {<<KeyPretty, ValTrue>>, <<KeyPretty, ValFalse>>, <<KeyQ, ValStar>>,
   <<KeyQ, ValPhrase>>, <<KeyPreference, ValLocal>>}
HeaderInputs == {ContentTypeJson, ContentTypePlaintext, AuthorizationLetMeIn}
Paths == {SearchPath, RootPath}

\* The inputs of the runs with several owners.
SharedBaseUrls == {EsHost}
SharedUrlParamInputs == {<<KeyPretty, ValTrue>>, <<KeyQ, ValStar>>}
SharedHeaderInputs == {ContentTypePlaintext}
SharedPaths == {SearchPath}

\* The number of builder calls made in all in a run with several owners.
MaxCalls == 4

Base == <<"base", 0>>
Callers == {<<"caller", 1>>, <<"caller", 2>>}
Owners == {Base} \cup Callers
Null == <<"null", 0>>

(***************************************************************************)
(* State                                                                   *)
(***************************************************************************)

VARIABLES
  ref,    \* owner -> the place of its RequestParams, Null before it has one
  store,  \* place -> the RequestParams value held there
  hist,   \* owner -> what its calls since construction asked for
  last,   \* the most recent call: its arguments, the value it was made on, its result
  calls   \* the number of builder calls made (runs with several owners)

vars == <<ref, store, hist, last, calls>>

\* The RequestParams of an owner.
Params(o) == store[ref[o]]

Live(o) == ref[o] # Null

NoValue == [ty |-> "none", b |-> FALSE, s |-> <<>>]
NoHeader == [name |-> "", value |-> ""]
NoParams == [base_url |-> <<>>, headers |-> HeadersNew, url_params |-> EmptyMap]
NoMethod == [enum |-> "", variant |-> ""]

NoCall ==
  [op |-> "none", obj |-> Null, before |-> NoParams,
   key |-> <<>>, value |-> NoValue, base |-> <<>>, hdr |-> NoHeader,
   path |-> <<>>, qry |-> [len |-> 0, opt |-> None], url |-> <<>>,
   verb |-> NoMethod, method |-> NoMethod]

\* What the calls of an owner asked for: the base url given last and whether
\* base_url was called never, once or more often; the value given last for each
\* key; whether a Content-Type header was supplied; and the value obtained by
\* applying the calls of this owner, in order, to the value it started from.
HistNew(base) ==
  [base |-> base, baseCalls |-> "never", written |-> [k \in Keys |-> NoValue],
   ctCalled |-> FALSE, expect |-> new(base)]

NoHist == HistNew(<<>>)

InitFrom(b) ==
  /\ ref = [o \in Owners |-> IF o = Base THEN Base ELSE Null]
  /\ store = [a \in {Base} |-> new(b)]
  /\ hist = [o \in Owners |-> IF o = Base THEN HistNew(b) ELSE NoHist]
  /\ last = [NoCall EXCEPT !.op = "new", !.obj = Base, !.base = b]
  /\ calls = 0

\* RequestParams::new(b), RequestParams::default() among them.
Init == \E b \in BaseUrls : InitFrom(b)

InitShared == InitFrom(DefaultBaseUrl)

(***************************************************************************)
(* Operations                                                              *)
(***************************************************************************)

\* Variant: a clone that shares the storage of the value it copies.
CloneTarget_shared(src, fresh) == src

\* The place a clone of the value at src is written to: storage of its own.
CloneTarget(src, fresh) == fresh

\* #[derive(Clone)]: a caller takes its own copy of the base configuration.
Clone(c) ==
  /\ ~Live(c)
  /\ LET a == CloneTarget(ref[Base], c) IN
       /\ ref' = [ref EXCEPT ![c] = a]
       /\ store' = [x \in DOMAIN store \cup {a} |->
                      IF x = a THEN store[ref[Base]] ELSE store[x]]
  /\ hist' = [hist EXCEPT ![c] = [hist[Base] EXCEPT !.expect = store[ref[Base]]]]
  /\ last' = [NoCall EXCEPT !.op = "clone", !.obj = c, !.before = store[ref[Base]]]
  /\ UNCHANGED calls

\* A builder call takes self by value and returns it: the owner keeps the result.
Write(o, p) ==
  /\ store' = [store EXCEPT ![ref[o]] = p]
  /\ UNCHANGED ref

DoBaseUrl(o, b) ==
  /\ Live(o)
  /\ Write(o, base_url(Params(o), b))
  /\ hist' = [hist EXCEPT ![o].base = b,
                          ![o].baseCalls = IF @ = "never" THEN "once" ELSE "more",
                          ![o].expect = base_url(@, b)]
  /\ last' = [NoCall EXCEPT !.op = "base_url", !.obj = o, !.before = Params(o), !.base = b]

DoUrlParam(o, k, v) ==
  /\ Live(o)
  /\ Write(o, url_param(Params(o), k, v))
  /\ hist' = [hist EXCEPT ![o].written[k] = v, ![o].expect = url_param(@, k, v)]
  /\ last' = [NoCall EXCEPT !.op = "url_param", !.obj = o, !.before = Params(o),
                            !.key = k, !.value = v]

DoHeader(o, h) ==
  /\ Live(o)
  /\ Write(o, header(Params(o), h))
  /\ hist' = [hist EXCEPT ![o].ctCalled = @ \/ h.name = ContentTypeName,
                          ![o].expect = header(@, h)]
  /\ last' = [NoCall EXCEPT !.op = "header", !.obj = o, !.before = Params(o), !.hdr = h]

DoGetUrlQry(o) ==
  /\ Live(o)
  /\ last' = [NoCall EXCEPT !.op = "get_url_qry", !.obj = o, !.before = Params(o),
                            !.qry = get_url_qry(Params(o))]
  /\ UNCHANGED <<ref, store, hist>>

DoBuildUrl(o, path) ==
  /\ Live(o)
  /\ last' = [NoCall EXCEPT !.op = "build_url", !.obj = o, !.before = Params(o),
                            !.path = path, !.url = build_url(path, Params(o))]
  /\ UNCHANGED <<ref, store, hist>>

DoBuildMethod(m) ==
  /\ last' = [NoCall EXCEPT !.op = "build_method", !.verb = m, !.method = build_method(m)]
  /\ UNCHANGED <<ref, store, hist>>

Uncounted == UNCHANGED calls

Counted == calls < MaxCalls /\ calls' = calls + 1

\* One owner: the calls on a single RequestParams.
Next ==
  \/ \E b \in BaseUrls : DoBaseUrl(Base, b) /\ Uncounted
  \/ \E kv \in UrlParamInputs : DoUrlParam(Base, kv[1], kv[2]) /\ Uncounted
  \/ \E h \in HeaderInputs : DoHeader(Base, h) /\ Uncounted
  \/ DoGetUrlQry(Base) /\ Uncounted
  \/ \E path \in Paths : DoBuildUrl(Base, path) /\ Uncounted
  \/ \E m \in HttpMethod : DoBuildMethod(m) /\ Uncounted

Spec == Init /\ [][Next]_vars

\* Several owners: callers clone the base configuration and each calls on its own.
NextShared ==
  \/ \E c \in Callers : Clone(c)
  \/ \E o \in Owners, b \in SharedBaseUrls : DoBaseUrl(o, b) /\ Counted
  \/ \E o \in Owners, kv \in SharedUrlParamInputs : DoUrlParam(o, kv[1], kv[2]) /\ Counted
  \/ \E o \in Owners, h \in SharedHeaderInputs : DoHeader(o, h) /\ Counted
  \/ \E o \in Owners, path \in SharedPaths : DoBuildUrl(o, path) /\ Uncounted

SpecShared == InitShared /\ [][NextShared]_vars

(***************************************************************************)
(* Reading a query string back: the pairs a receiver of the URL sees        *)
(***************************************************************************)

Min(S) == CHOOSE x \in S : \A y \in S : x <= y

\* The pieces of s between the occurrences of the character sep.
RECURSIVE SplitOn(_, _)
SplitOn(s, sep) ==
  LET at == {i \in 1..Len(s) : s[i] = sep} IN
    IF at = {} THEN <<s>>
    ELSE <<SubSeq(s, 1, Min(at) - 1)>> \o SplitOn(SubSeq(s, Min(at) + 1, Len(s)), sep)

HexValue(c) ==
  IF \E i \in 1..Len(HexDigits) : HexDigits[i] = c
  THEN (CHOOSE i \in 1..Len(HexDigits) : HexDigits[i] = c) - 1
  ELSE 0

CharOfByte(n) == IF n - 31 \in 1..Len(Ascii) THEN Ascii[n - 31] ELSE "?"

\* application/x-www-form-urlencoded decoding: + is a space, %XX is a byte.
RECURSIVE FormDecode(_)
FormDecode(s) ==
  IF s = <<>> THEN <<>>
  ELSE IF Head(s) = "+" THEN <<" ">> \o FormDecode(Tail(s))
  ELSE IF Head(s) = "%" /\ Len(s) >= 3
       THEN <<CharOfByte(16 * HexValue(s[2]) + HexValue(s[3]))>>
            \o FormDecode(SubSeq(s, 4, Len(s)))
  ELSE <<Head(s)>> \o FormDecode(Tail(s))

\* The name=value pieces of a query string, after its first character.
QueryPieces(q) == IF Len(q) <= 1 THEN <<>> ELSE SplitOn(Tail(q), "&")

\* The decoded pairs of a query string; parts is 2 for a piece name=value.
QueryPairs(q) ==
  LET pieces == QueryPieces(q) IN
    [i \in 1..Len(pieces) |->
       LET nv == SplitOn(pieces[i], "=") IN
         [name |-> FormDecode(nv[1]),
          value |-> IF Len(nv) >= 2 THEN FormDecode(nv[2]) ELSE <<>>,
          parts |-> Len(nv)]]

CountChar(s, c) == Cardinality({i \in 1..Len(s) : s[i] = c})

\* The query string an owner would send, empty when get_url_qry returns none.
QryStr(o) == get_url_qry(Params(o)).opt.str

Written(o, k) == hist[o].written[k]

NothingWritten(o) == \A k \in Keys : Written(o, k) = NoValue

\* The keys url_param was called with.
WrittenKeys(o) == {k \in Keys : Written(o, k) # NoValue}

Query16 == <<"?","p","r","e","t","t","y","=","t","r","u","e","&","q","=","*">>

\* url_param was called with pretty=true and q=* last, and with no other key.
HoldsPrettyAndQ(o) ==
  /\ Written(o, KeyPretty) = ValTrue
  /\ Written(o, KeyQ) = ValStar
  /\ Written(o, KeyPreference) = NoValue

(***************************************************************************)
(* Claims                                                                  *)
(***************************************************************************)

\* C1: after any builder calls, a key url_param was called with is stored once,
\* with the string of the value given last, and the query string of get_url_qry
\* holds that key in exactly one pair, paired with that last value.
C1_LastWriteWins ==
  \A k \in Keys :
    Written(Base, k) # NoValue =>
      LET m == Params(Base).url_params
          pairs == QueryPairs(QryStr(Base))
      IN  /\ Cardinality({i \in 1..Len(m) : m[i].key = k}) = 1
          /\ \A i \in 1..Len(m) : m[i].key = k => m[i].val = to_string(Written(Base, k))
          /\ Cardinality({i \in 1..Len(pairs) : pairs[i].name = k}) = 1
          /\ \A i \in 1..Len(pairs) :
               pairs[i].name = k =>
                 pairs[i].parts = 2 /\ pairs[i].value = to_string(Written(Base, k))

\* A url_param call that found its key stored with another value has replaced it.
C1_Witness ==
  /\ last.op = "url_param"
  /\ \E i \in 1..Len(last.before.url_params) :
       /\ last.before.url_params[i].key = last.key
       /\ last.before.url_params[i].val # to_string(last.value)
  /\ \E i \in 1..Len(Params(Base).url_params) :
       Params(Base).url_params[i] = [key |-> last.key, val |-> to_string(last.value)]
  /\ Len(Params(Base).url_params) >= 2

\* C3 as stated: with exactly pretty=true and q=*, get_url_qry returns
\* ?pretty=true&q=* together with the length 17.
C3_Original ==
  HoldsPrettyAndQ(Base) =>
    get_url_qry(Params(Base)) = [len |-> 17, opt |-> Some(Query16)]

\* C3 amended: with exactly pretty=true and q=*, get_url_qry returns
\* ?pretty=true&q=* together with the length 16, pretty before q.
C3_PrettyAndQ ==
  HoldsPrettyAndQ(Base) =>
    /\ get_url_qry(Params(Base)) = [len |-> 16, opt |-> Some(Query16)]
    /\ last.op = "get_url_qry" => last.qry = [len |-> 16, opt |-> Some(Query16)]
    /\ [i \in 1..Len(QueryPairs(QryStr(Base))) |-> QueryPairs(QryStr(Base))[i].name]
         = <<KeyPretty, KeyQ>>

\* get_url_qry has been called on a store of pretty=true and q=*.
C3_Witness ==
  /\ HoldsPrettyAndQ(Base)
  /\ last.op = "get_url_qry"
  /\ last.qry.len = Len(Query16)
  /\ last.qry.opt = Some(Query16)

\* C4: get_url_qry returns length 0 and no string when url_param was never
\* called, whatever base_url and header calls were made, and a present string
\* when url_param was called.
C4_EmptyQuery ==
  LET r == get_url_qry(Params(Base)) IN
    /\ NothingWritten(Base) => r = [len |-> 0, opt |-> None]
    /\ ~NothingWritten(Base) => r.opt.some
    /\ last.op = "get_url_qry" => last.qry = r

\* get_url_qry returned nothing after base_url and header calls only.
C4_Witness ==
  /\ last.op = "get_url_qry"
  /\ NothingWritten(Base)
  /\ hist[Base].baseCalls # "never"
  /\ AuthorizationName \in DOMAIN Params(Base).headers
  /\ last.qry = [len |-> 0, opt |-> None]

\* C10: the length get_url_qry returns is the length of its string, and is 0
\* exactly when it returns no string; a returned string starts with a single ?,
\* holds one name=value pair per stored key, with & between consecutive pairs
\* and none after the ?; pretty=true and q=* give (16, ?pretty=true&q=*).
C10_QueryShape ==
  LET r == get_url_qry(Params(Base))
      pieces == QueryPieces(r.opt.str)
  IN  /\ r.len = Len(r.opt.str)
      /\ r.len = 0 <=> ~r.opt.some
      /\ ~r.opt.some => r.opt.str = <<>>
      /\ r.opt.some =>
           /\ Head(r.opt.str) = "?"
           /\ CountChar(r.opt.str, "?") = 1
           /\ Len(pieces) = Len(Params(Base).url_params)
           /\ Len(pieces) = Cardinality(WrittenKeys(Base))
           /\ CountChar(r.opt.str, "&") = Len(pieces) - 1
           /\ \A i \in 1..Len(pieces) :
                pieces[i] # <<>> /\ CountChar(pieces[i], "=") = 1 /\ Head(pieces[i]) # "="
      /\ HoldsPrettyAndQ(Base) => r = [len |-> 16, opt |-> Some(Query16)]
      /\ last.op = "get_url_qry" => last.qry = r

\* get_url_qry has returned a string of three pairs.
C10_Witness ==
  /\ last.op = "get_url_qry"
  /\ last.qry.opt.some
  /\ Len(Params(Base).url_params) = 3
  /\ CountChar(last.qry.opt.str, "&") = 2

\* The names of the pairs of a query string, in the order they appear.
QueryNames(q) == [i \in 1..Len(QueryPairs(q)) |-> QueryPairs(q)[i].name]

\* The keys of a map, in the order it holds them.
MapKeys(m) == [i \in 1..Len(m) |-> m[i].key]

Range(s) == {s[i] : i \in 1..Len(s)}

BuilderOps == {"base_url", "url_param", "header"}

EsHostSearchPretty ==
  <<"h","t","t","p",":","/","/","e","s","h","o","s","t",":","9","2","0","0",
    "/","m","y","i","n","d","e","x","/","m","y","t","y","p","e","/","_","s","e","a","r","c","h",
    "?","p","r","e","t","t","y","=","t","r","u","e">>

\* C2: a RequestParams always carries a Content-Type header; it is
\* application/json unless a header call supplied a Content-Type since
\* construction; base_url and url_param leave the headers as they were.
C2_ContentType ==
  LET hs == Params(Base).headers IN
    /\ ContentTypeName \in DOMAIN hs
    /\ ~hist[Base].ctCalled => hs[ContentTypeName] = "application/json"
    /\ last.op \in {"base_url", "url_param"} => hs = last.before.headers

\* The default Content-Type is still there after base_url, header (of another
\* name) and url_param calls.
C2_Witness ==
  /\ last.op = "url_param"
  /\ ~hist[Base].ctCalled
  /\ hist[Base].baseCalls # "never"
  /\ AuthorizationName \in DOMAIN Params(Base).headers
  /\ Params(Base).headers[ContentTypeName] = "application/json"

\* C5: build_url returns base_url, then the path, then the string of
\* get_url_qry, and base_url then the path with no ? when there are no
\* parameters; base http://eshost:9200 with pretty=true and the path
\* /myindex/mytype/_search gives http://eshost:9200/myindex/mytype/_search?pretty=true.
C5_BuildUrl ==
  last.op = "build_url" =>
    /\ last.url = Params(Base).base_url \o last.path \o QryStr(Base)
    /\ SubSeq(last.url, 1, Len(hist[Base].base)) = hist[Base].base
    /\ NothingWritten(Base) =>
         /\ last.url = hist[Base].base \o last.path
         /\ CountChar(last.url, "?") = 0
    /\ ( /\ hist[Base].base = EsHost
         /\ WrittenKeys(Base) = {KeyPretty}
         /\ Written(Base, KeyPretty) = ValTrue
         /\ last.path = SearchPath ) => last.url = EsHostSearchPretty

\* build_url has produced the URL of the end-to-end scenario.
C5_Witness ==
  /\ last.op = "build_url"
  /\ hist[Base].base = EsHost
  /\ WrittenKeys(Base) = {KeyPretty}
  /\ Written(Base, KeyPretty) = ValTrue
  /\ last.path = SearchPath
  /\ last.url = EsHostSearchPretty

\* C6: build_method maps each of the six HttpMethod variants to the transport
\* verb of the same name, no two variants to the same verb, and every variant
\* to some verb.
C6_BuildMethod ==
  /\ Cardinality(HttpMethod) = 6
  /\ \A m \in HttpMethod :
       build_method(m) \in TransportMethod /\ build_method(m).variant = m.variant
  /\ \A m1, m2 \in HttpMethod : build_method(m1) = build_method(m2) => m1 = m2
  /\ last.op = "build_method" =>
       last.verb \in HttpMethod /\ last.method = Transport(last.verb.variant)

\* build_method has mapped Patch.
C6_Witness ==
  /\ last.op = "build_method"
  /\ last.verb = Http("Patch")
  /\ last.method = Transport("Patch")

\* C7: the base URL is the argument of the most recent base_url call, or the
\* value given to new (http://localhost:9200 for default) when there was none;
\* base_url leaves the query parameters and the headers as they were.
C7_BaseUrl ==
  /\ Params(Base).base_url = hist[Base].base
  /\ last.op = "new" => Params(Base).base_url = last.base
  /\ default.base_url =
       <<"h","t","t","p",":","/","/","l","o","c","a","l","h","o","s","t",":","9","2","0","0">>
  /\ last.op = "base_url" =>
       /\ Params(Base).base_url = last.base
       /\ Params(Base).url_params = last.before.url_params
       /\ Params(Base).headers = last.before.headers

\* base_url has been called a second time, with another value, on a store
\* that holds parameters and an added header.
C7_Witness ==
  /\ last.op = "base_url"
  /\ hist[Base].baseCalls = "more"
  /\ last.before.base_url # last.base
  /\ Params(Base).base_url = last.base
  /\ Len(Params(Base).url_params) > 0
  /\ AuthorizationName \in DOMAIN Params(Base).headers

\* C9: the pairs of the get_url_qry string are in ascending byte order of
\* their keys, whatever the order of the url_param calls; a url_param call on a
\* key already present changes the value of that key only: the keys, their
\* order in the string and the values of the other keys stay as they were.
C9_KeyOrder ==
  LET names == QueryNames(QryStr(Base))
      m == Params(Base).url_params
      old == last.before.url_params
  IN  /\ Range(names) = WrittenKeys(Base)
      /\ \A i, j \in 1..Len(names) : i < j => StrLess(names[i], names[j])
      /\ WrittenKeys(Base) = Keys => names = <<KeyPreference, KeyPretty, KeyQ>>
      /\ (last.op = "url_param" /\ contains_key(old, last.key)) =>
           /\ MapKeys(m) = MapKeys(old)
           /\ names = QueryNames(get_url_qry(last.before).opt.str)
           /\ \A i \in 1..Len(m) : m[i].key # last.key => m[i] = old[i]
           /\ \A i \in 1..Len(m) : m[i].key = last.key => m[i].val = to_string(last.value)

\* url_param has replaced the value of the middle one of three keys.
C9_Witness ==
  /\ last.op = "url_param"
  /\ last.key = KeyPretty
  /\ contains_key(last.before.url_params, KeyPretty)
  /\ last.before.url_params # Params(Base).url_params
  /\ QueryNames(QryStr(Base)) = <<KeyPreference, KeyPretty, KeyQ>>

\* C8: every owner holds the value its own calls give from the value it
\* started from (for a caller, the base configuration when it cloned it): the
\* calls of the other owners, in any interleaving, do not change its
\* RequestParams, the URL it builds or its headers.
C8_Isolation ==
  /\ \A o \in Owners :
       Live(o) =>
         /\ Params(o) = hist[o].expect
         /\ \A path \in SharedPaths :
              build_url(path, Params(o)) = build_url(path, hist[o].expect)
  /\ \A o1, o2 \in Owners : (Live(o1) /\ Live(o2) /\ o1 # o2) => ref[o1] # ref[o2]
  /\ last.op = "build_url" =>
       last.url = build_url(last.path, hist[last.obj].expect)
  /\ last.op \in BuilderOps =>
       \A x \in Owners \ {last.obj} : Live(x) => Params(x) = hist[x].expect

\* Both callers have cloned the base and the three owners have each made
\* calls of their own that the others do not see.
C8_Witness ==
  /\ \A o \in Owners : Live(o)
  /\ last.op \in BuilderOps
  /\ last.obj \in Callers
  /\ \A o1, o2 \in Owners : o1 # o2 => Params(o1) # Params(o2)
  /\ \E c \in Callers : Params(c).url_params # Params(Base).url_params
  /\ calls >= 3

====
